---- MODULE Spec2Model ----
(***************************************************************************)
(* The location-sharing relay of TrafficCue Server: the /api/ws route of   *)
(* main.ts (wsSubscribers, the per-connection closure variable             *)
(* `advertising`, the handlers onOpen / onMessage / onClose, randomCode).  *)
(*                                                                         *)
(* JavaScript runs every handler to completion on one thread, so each      *)
(* handler is one atomic action.  A handler that ends in an uncaught       *)
(* exception keeps the assignments and sends it made before the throw.     *)
(*                                                                         *)
(* `ws` is taken to denote the connection: the handlers compare            *)
(* subscribers with `ws` by reference, and the model gives every           *)
(* connection one identity for all of its events.                          *)
(***************************************************************************)
EXTENDS Integers, Sequences, FiniteSets, TLC

(* ---------------------------- bounds ---------------------------------- *)

\* connections the server accepts during one run
NumConns == 3
\* longest subscriber list explored (the code never limits it)
MaxSubs == 2
\* how many of the sample Math.random() streams are explored
NumStreams == 1
\* how many distinct location payloads clients send
NumPayloads == 2
\* how many events (opens, messages, closes) the server handles in one run
MaxEvents == 8
\* the same for the longer runs of SpecDeep
MaxDeepEvents == 9

Conns == 1 .. NumConns
Payloads == 1 .. NumPayloads

(* ---------------------------- codes ----------------------------------- *)

\* A code is a string, modelled as the sequence of its characters; "" is <<>>.
EmptyString == <<>>

\* const characters = "ABCDEFGHIJKLMNOPQRSTUVWXYZ0123456789"
characters ==
  << "A","B","C","D","E","F","G","H","I","J","K","L","M",
     "N","O","P","Q","R","S","T","U","V","W","X","Y","Z",
     "0","1","2","3","4","5","6","7","8","9" >>

\* length: number = 6
DefaultLength == 6

\* Math.random() returns a double in [0, 1); the model draws it as r / RandomScale
\* with r in 0 .. RandomScale - 1.
RandomScale == 72

\* Math.floor(Math.random() * characters.length)
RandomIndex(r) == (r * Len(characters)) \div RandomScale

\* characters.charAt(i), i counted from 0
charAt(s, i) == IF i >= 0 /\ i < Len(s) THEN <<s[i + 1]>> ELSE <<>>

\* mutant of randomCodeLoop: the loop runs while i <= length
RECURSIVE randomCodeLoopInclusive(_, _, _, _)
randomCodeLoopInclusive(i, length, result, rnd) ==
  IF i <= length
    THEN randomCodeLoopInclusive(i + 1, length,
                        result \o charAt(characters, RandomIndex(rnd[i + 1])), rnd)
    ELSE result

\* The loop of randomCode: for (let i = 0; i < length; i++) result += charAt(...)
\* rnd is the stream of Math.random() draws, one per iteration.
RECURSIVE randomCodeLoop(_, _, _, _)
randomCodeLoop(i, length, result, rnd) ==
  IF i < length
    THEN randomCodeLoop(i + 1, length,
                        result \o charAt(characters, RandomIndex(rnd[i + 1])), rnd)
    ELSE result

randomCode(length, rnd) == randomCodeLoop(0, length, EmptyString, rnd)

\* Sample random streams: the smallest draw throughout, the largest draw
\* throughout, and a mixed one.
SampleStreams ==
  << [i \in 1 .. DefaultLength + 1 |-> 0],
     [i \in 1 .. DefaultLength + 1 |-> RandomScale - 1],
     [i \in 1 .. DefaultLength + 1 |-> (i * 13) % RandomScale] >>

Streams == { SampleStreams[n] : n \in 1 .. (IF NumStreams < 3 THEN NumStreams ELSE 3) }

\* Codes a client supplies in the `code` field.
ABC123 == << "A","B","C","1","2","3" >>
\* Names every object literal inherits from Object.prototype.
Constructor == << "c","o","n","s","t","r","u","c","t","o","r" >>
Proto == << "_","_","p","r","o","t","o","_","_" >>

GeneratedCodes == { randomCode(DefaultLength, rnd) : rnd \in Streams }
ClientCodes == { ABC123, Constructor, Proto } \cup GeneratedCodes
\* data.code of an incoming message: a string, or absent / "" (both falsy)
CodeFields == ClientCodes \cup { EmptyString }

(* ------------------- the object wsSubscribers -------------------------- *)

\* let wsSubscribers: Record<string, WSContext[]> = {}
\* An object literal: its own properties, in property-enumeration order, and
\* behind them the properties inherited from Object.prototype.  A value is an
\* array of connections (kind "array"), some other object such as the function
\* Object or Object.prototype itself (kind "object"), or undefined.
Undefined == [kind |-> "undefined", subs |-> <<>>]
InheritedObject == [kind |-> "object", subs |-> <<>>]
Array(subs) == [kind |-> "array", subs |-> subs]

InheritedNames == { Constructor, Proto }

Digits == { "0","1","2","3","4","5","6","7","8","9" }

DigitValue(ch) == CHOOSE n \in 0 .. 9 : SubSeq(characters, 27, 36)[n + 1] = ch

RECURSIVE NumericValue(_)
NumericValue(code) ==
  IF code = <<>> THEN 0
  ELSE 10 * NumericValue(SubSeq(code, 1, Len(code) - 1)) + DigitValue(code[Len(code)])

\* A canonical array index ("0", "7", "999999"): such keys are enumerated
\* first, in ascending numeric order, before the other string keys.
IsArrayIndex(code) ==
  /\ Len(code) >= 1
  /\ Len(code) <= 9
  /\ \A i \in 1 .. Len(code) : code[i] \in Digits
  /\ (Len(code) = 1 \/ code[1] # "0")

OwnKeys(dir) == [i \in 1 .. Len(dir) |-> dir[i].code]
HasOwn(dir, code) == \E i \in 1 .. Len(dir) : dir[i].code = code
IndexOf(dir, code) == CHOOSE i \in 1 .. Len(dir) : dir[i].code = code

\* wsSubscribers[code] as an rvalue: own property, else the prototype chain.
Get(dir, code) ==
  IF code # Proto /\ HasOwn(dir, code)
    THEN dir[IndexOf(dir, code)].val
    ELSE IF code \in InheritedNames THEN InheritedObject ELSE Undefined

\* Where a new own key lands in the enumeration order.
InsertAt(dir, code) ==
  IF IsArrayIndex(code)
    THEN 1 + Cardinality({ i \in 1 .. Len(dir) :
                             /\ IsArrayIndex(dir[i].code)
                             /\ NumericValue(dir[i].code) < NumericValue(code) })
    ELSE Len(dir) + 1

\* wsSubscribers[code] = val.  Assigning to __proto__ runs the inherited
\* setter (here with the prototype the object already has) and creates no key.
Put(dir, code, val) ==
  IF code = Proto THEN dir
  ELSE IF HasOwn(dir, code)
    THEN [dir EXCEPT ![IndexOf(dir, code)].val = val]
    ELSE LET k == InsertAt(dir, code)
         IN SubSeq(dir, 1, k - 1) \o << [code |-> code, val |-> val] >>
              \o SubSeq(dir, k, Len(dir))

\* delete wsSubscribers[code]
Delete(dir, code) == SelectSeq(dir, LAMBDA e : e.code # code)

\* JavaScript truthiness of a code field and of a property value
TruthyCode(code) == code # EmptyString
TruthyValue(v) == v.kind # "undefined"

(* ---------------------------- state ----------------------------------- *)

VARIABLES
  status,         \* per connection: "new" (not yet upgraded), "open", "closed"
  advertising,    \* per connection: the closure variable `advertising`
  wsSubscribers,  \* the module-level object wsSubscribers
  event,          \* the event whose handler ran last
  sent,           \* the ws.send calls of that handler, in order
  threw,          \* that handler ended in an uncaught exception
  everAdvertised, \* codes some connection has sent advertise with (history)
  received,       \* per connection: [welcomes, first] of the messages it got (history)
  joined,         \* per connection: codes it got a `subscribed` reply for (history)
  lastLocation,   \* per connection: payload of the last location message it got
                  \* before the last handler ran, 0 if none (history)
  handled         \* number of events handled so far

vars == << status, advertising, wsSubscribers, event, sent, threw,
           everAdvertised, received, joined, lastLocation, handled >>

\* JSON.stringify({ type, ... }) handed to ws.send
WelcomeMsg == [type |-> "welcome", code |-> EmptyString,
               message |-> "Welcome to TrafficCue WebSocket!", payload |-> 0]
AdvertisingMsg(code) == [type |-> "advertising", code |-> code,
                         message |-> "", payload |-> 0]
SubscribedMsg(code) == [type |-> "subscribed", code |-> code,
                        message |-> "", payload |-> 0]
ErrorMsg(text) == [type |-> "error", code |-> EmptyString,
                   message |-> text, payload |-> 0]
LocationMsg(p) == [type |-> "location", code |-> EmptyString,
                   message |-> "", payload |-> p]

Send(to, msg) == [to |-> to, msg |-> msg]

Event(kind, ws, type, code, payload) ==
  [kind |-> kind, conn |-> ws, type |-> type, code |-> code, payload |-> payload]

\* What the clients see of a handler's sends: a send on a closed connection
\* is dropped, any other reaches the client.
RECURSIVE Deliver(_, _, _)
Deliver(rcv, sends, st) ==
  IF sends = <<>> THEN rcv
  ELSE LET s == Head(sends)
           r == rcv[s.to]
           r2 == IF st[s.to] = "closed" THEN r
                 ELSE [welcomes |-> r.welcomes + (IF s.msg.type = "welcome" THEN 1 ELSE 0),
                       first |-> IF r.first = "none" THEN s.msg.type ELSE r.first]
       IN Deliver([rcv EXCEPT ![s.to] = r2], Tail(sends), st)

\* The location messages among a handler's sends, as their receivers see
\* them: each one replaces what the receiver had as its latest.
RECURSIVE Flush(_, _, _)
Flush(last, sends, st) ==
  IF sends = <<>> THEN last
  ELSE LET s == Head(sends)
       IN Flush(IF s.msg.type = "location" /\ st[s.to] # "closed"
                  THEN [last EXCEPT ![s.to] = s.msg.payload]
                  ELSE last,
                Tail(sends), st)

Init ==
  /\ status = [c \in Conns |-> "new"]
  /\ advertising = [c \in Conns |-> EmptyString]
  /\ wsSubscribers = <<>>
  /\ event = Event("none", 0, "", EmptyString, 0)
  /\ sent = <<>>
  /\ threw = FALSE
  /\ everAdvertised = {}
  /\ received = [c \in Conns |-> [welcomes |-> 0, first |-> "none"]]
  /\ joined = [c \in Conns |-> {}]
  /\ lastLocation = [c \in Conns |-> 0]
  /\ handled = 0

(* ---------------------------- handlers -------------------------------- *)

\* mutant of onOpen: the welcome message is not sent
onOpenSilent(ws) ==
  /\ status[ws] = "new"
  /\ \A earlier \in 1 .. ws - 1 : status[earlier] # "new"
  /\ status' = [status EXCEPT ![ws] = "open"]
  /\ advertising' = [advertising EXCEPT ![ws] = EmptyString]
  /\ sent' = <<>>
  /\ threw' = FALSE
  /\ event' = Event("open", ws, "", EmptyString, 0)
  /\ UNCHANGED << wsSubscribers, everAdvertised, joined, received >>

\* upgradeWebSocket((c) => { let advertising = ""; ... }) and onOpen
\* Connections are numbered in the order the server accepts them.
onOpen(ws) ==
  /\ status[ws] = "new"
  /\ \A earlier \in 1 .. ws - 1 : status[earlier] # "new"
  /\ status' = [status EXCEPT ![ws] = "open"]
  /\ advertising' = [advertising EXCEPT ![ws] = EmptyString]
  /\ sent' = << Send(ws, WelcomeMsg) >>
  /\ threw' = FALSE
  /\ event' = Event("open", ws, "", EmptyString, 0)
  /\ received' = Deliver(received, sent', status')
  /\ UNCHANGED << wsSubscribers, everAdvertised, joined >>

\* mutant of AdvertiseCode: an empty code is not replaced by a generated one
AdvertiseCodeNoFallback(code, rnd) == code

\* onMessage, data.type === "advertise"
\* code is data.code; rnd is the stream randomCode() draws from.
AdvertiseCode(code, rnd) ==
  IF TruthyCode(code) THEN code ELSE randomCode(DefaultLength, rnd)

\* mutant of AdvertiseValue: every advertise starts a new list
AdvertiseValueReset(dir, code) == Array(<<>>)

AdvertiseValue(dir, code) ==
  IF TruthyValue(Get(dir, code)) THEN Get(dir, code) ELSE Array(<<>>)

\* mutant of onAdvertise: a connection keeps the first code it advertised
onAdvertiseKeepsFirst(ws, dcode, rnd) ==
  /\ status[ws] = "open"
  /\ LET code == AdvertiseCode(dcode, rnd)
     IN /\ wsSubscribers' = Put(wsSubscribers, code, AdvertiseValue(wsSubscribers, code))
        /\ advertising' = [advertising EXCEPT ![ws] = IF @ = EmptyString THEN code ELSE @]
        /\ sent' = << Send(ws, AdvertisingMsg(code)) >>
        /\ everAdvertised' = everAdvertised \cup { code }
  /\ threw' = FALSE
  /\ event' = Event("message", ws, "advertise", dcode, 0)
  /\ received' = Deliver(received, sent', status)
  /\ UNCHANGED << status, joined >>

onAdvertise(ws, dcode, rnd) ==
  /\ status[ws] = "open"
  /\ LET code == AdvertiseCode(dcode, rnd)
     IN /\ wsSubscribers' = Put(wsSubscribers, code, AdvertiseValue(wsSubscribers, code))
        /\ advertising' = [advertising EXCEPT ![ws] = code]
        /\ sent' = << Send(ws, AdvertisingMsg(code)) >>
        /\ everAdvertised' = everAdvertised \cup { code }
  /\ threw' = FALSE
  /\ event' = Event("message", ws, "advertise", dcode, 0)
  /\ received' = Deliver(received, sent', status)
  /\ UNCHANGED << status, joined >>

\* onMessage, data.type === "subscribe"
\* if (!code || !wsSubscribers[code])
SubscribeRejected(dir, code) == ~TruthyCode(code) \/ ~TruthyValue(Get(dir, code))

\* wsSubscribers[code].push(ws): only an array has push; on any other object
\* the call throws a TypeError.
PushThrows(dir, code) == Get(dir, code).kind # "array"

Push(dir, code, ws) == Put(dir, code, Array(Append(Get(dir, code).subs, ws)))

\* mutant of onSubscribe: the code subscribed to becomes the sender's
\* advertising code
onSubscribeTakesCode(ws, code) ==
  /\ status[ws] = "open"
  /\ IF SubscribeRejected(wsSubscribers, code)
       THEN /\ sent' = << Send(ws, ErrorMsg("Invalid or unknown code")) >>
            /\ threw' = FALSE
            /\ UNCHANGED << wsSubscribers, advertising >>
       ELSE IF PushThrows(wsSubscribers, code)
         THEN /\ sent' = <<>>
              /\ threw' = TRUE
              /\ UNCHANGED << wsSubscribers, advertising >>
         ELSE /\ Len(Get(wsSubscribers, code).subs) < MaxSubs
              /\ wsSubscribers' = Push(wsSubscribers, code, ws)
              /\ advertising' = [advertising EXCEPT ![ws] = code]
              /\ sent' = << Send(ws, SubscribedMsg(code)) >>
              /\ threw' = FALSE
  /\ joined' = [joined EXCEPT ![ws] =
                  IF sent' = << Send(ws, SubscribedMsg(code)) >> THEN @ \cup { code } ELSE @]
  /\ event' = Event("message", ws, "subscribe", code, 0)
  /\ received' = Deliver(received, sent', status)
  /\ UNCHANGED << status, everAdvertised >>

\* mutant of onSubscribe: a new subscriber is also sent the location message
\* handled just before
onSubscribeReplay(ws, code) ==
  /\ status[ws] = "open"
  /\ IF SubscribeRejected(wsSubscribers, code)
       THEN /\ sent' = << Send(ws, ErrorMsg("Invalid or unknown code")) >>
            /\ threw' = FALSE
            /\ UNCHANGED wsSubscribers
       ELSE IF PushThrows(wsSubscribers, code)
         THEN /\ sent' = <<>>
              /\ threw' = TRUE
              /\ UNCHANGED wsSubscribers
         ELSE /\ Len(Get(wsSubscribers, code).subs) < MaxSubs
              /\ wsSubscribers' = Push(wsSubscribers, code, ws)
              /\ sent' = << Send(ws, SubscribedMsg(code)) >>
                           \o (IF event.kind = "message" /\ event.type = "location"
                                 THEN << Send(ws, LocationMsg(event.payload)) >>
                                 ELSE <<>>)
              /\ threw' = FALSE
  /\ joined' = [joined EXCEPT ![ws] =
                  IF sent' # <<>> /\ sent'[1] = Send(ws, SubscribedMsg(code))
                    THEN @ \cup { code } ELSE @]
  /\ event' = Event("message", ws, "subscribe", code, 0)
  /\ received' = Deliver(received, sent', status)
  /\ UNCHANGED << status, advertising, everAdvertised >>

onSubscribe(ws, code) ==
  /\ status[ws] = "open"
  /\ IF SubscribeRejected(wsSubscribers, code)
       THEN /\ sent' = << Send(ws, ErrorMsg("Invalid or unknown code")) >>
            /\ threw' = FALSE
            /\ UNCHANGED wsSubscribers
       ELSE IF PushThrows(wsSubscribers, code)
         THEN /\ sent' = <<>>
              /\ threw' = TRUE
              /\ UNCHANGED wsSubscribers
         ELSE /\ Len(Get(wsSubscribers, code).subs) < MaxSubs
              /\ wsSubscribers' = Push(wsSubscribers, code, ws)
              /\ sent' = << Send(ws, SubscribedMsg(code)) >>
              /\ threw' = FALSE
  /\ joined' = [joined EXCEPT ![ws] =
                  IF sent' = << Send(ws, SubscribedMsg(code)) >> THEN @ \cup { code } ELSE @]
  /\ event' = Event("message", ws, "subscribe", code, 0)
  /\ received' = Deliver(received, sent', status)
  /\ UNCHANGED << status, advertising, everAdvertised >>

\* onMessage, data.type === "location"
\* const subscribers = wsSubscribers[advertising] || []
Subscribers(dir, adv) ==
  IF TruthyValue(Get(dir, adv)) THEN Get(dir, adv) ELSE Array(<<>>)

\* mutant of Recipients: every other connection is a recipient, in a list or not
RecipientsEveryone(subs, ws) ==
  [i \in 1 .. NumConns - 1 |-> IF i < ws THEN i ELSE i + 1]

\* mutant of Recipients: the sender is not skipped
RecipientsWithSender(subs, ws) == subs

\* subscribers.forEach(subscriber => { if (subscriber !== ws) subscriber.send(...) })
Recipients(subs, ws) == SelectSeq(subs, LAMBDA subscriber : subscriber # ws)

\* mutant of Broadcast: a send on a closed connection ends the forEach
BroadcastStopsAtClosed(subs, ws, p) ==
  LET to == Recipients(subs, ws)
      live == { i \in 1 .. Len(to) : \A j \in 1 .. i : status[to[j]] # "closed" }
  IN [i \in 1 .. Cardinality(live) |-> Send(to[i], LocationMsg(p))]

\* mutant of Broadcast: the sends lag one message behind, each location
\* handler passing on the message the handler before it was given
BroadcastLagging(subs, ws, p) ==
  LET to == Recipients(subs, ws)
      q == IF event.kind = "message" /\ event.type = "location" THEN event.payload ELSE p
  IN [i \in 1 .. Len(to) |-> Send(to[i], LocationMsg(q))]

Broadcast(subs, ws, p) ==
  LET to == Recipients(subs, ws)
  IN [i \in 1 .. Len(to) |-> Send(to[i], LocationMsg(p))]

onLocation(ws, p) ==
  /\ status[ws] = "open"
  /\ LET subscribers == Subscribers(wsSubscribers, advertising[ws])
     IN IF subscribers.kind # "array"
          THEN /\ sent' = <<>>
               /\ threw' = TRUE
          ELSE /\ sent' = Broadcast(subscribers.subs, ws, p)
               /\ threw' = FALSE
  /\ event' = Event("message", ws, "location", EmptyString, p)
  /\ received' = Deliver(received, sent', status)
  /\ UNCHANGED << status, advertising, wsSubscribers, everAdvertised, joined >>

\* mutant of onUnknown: the error closes the connection
onUnknownFatal(ws) ==
  /\ status[ws] = "open"
  /\ status' = [status EXCEPT ![ws] = "closed"]
  /\ sent' = << Send(ws, ErrorMsg("Unknown message type")) >>
  /\ threw' = FALSE
  /\ event' = Event("message", ws, "other", EmptyString, 0)
  /\ received' = Deliver(received, sent', status)
  /\ UNCHANGED << advertising, wsSubscribers, everAdvertised, joined >>

\* mutant of onUnknown: the error carries another text
onUnknownOtherText(ws) ==
  /\ status[ws] = "open"
  /\ sent' = << Send(ws, ErrorMsg("Unknown message")) >>
  /\ threw' = FALSE
  /\ event' = Event("message", ws, "other", EmptyString, 0)
  /\ received' = Deliver(received, sent', status)
  /\ UNCHANGED << status, advertising, wsSubscribers, everAdvertised, joined >>

\* onMessage, any other data.type
onUnknown(ws) ==
  /\ status[ws] = "open"
  /\ sent' = << Send(ws, ErrorMsg("Unknown message type")) >>
  /\ threw' = FALSE
  /\ event' = Event("message", ws, "other", EmptyString, 0)
  /\ received' = Deliver(received, sent', status)
  /\ UNCHANGED << status, advertising, wsSubscribers, everAdvertised, joined >>

\* onMessage with text that is no JSON: JSON.parse throws a SyntaxError
\* before anything else runs.
onMalformed(ws) ==
  /\ status[ws] = "open"
  /\ sent' = <<>>
  /\ threw' = TRUE
  /\ event' = Event("message", ws, "malformed", EmptyString, 0)
  /\ UNCHANGED << status, advertising, wsSubscribers, everAdvertised, received, joined >>

\* mutant of CloseLoop: a list that becomes empty is kept
RECURSIVE CloseLoopKeepsEmpty(_, _, _)
CloseLoopKeepsEmpty(dir, keys, ws) ==
  IF keys = <<>> THEN [dir |-> dir, threw |-> FALSE]
  ELSE LET code == Head(keys)
           v == Get(dir, code)
       IN IF ~TruthyValue(v) THEN CloseLoopKeepsEmpty(dir, Tail(keys), ws)
          ELSE IF v.kind # "array" THEN [dir |-> dir, threw |-> TRUE]
          ELSE LET kept == SelectSeq(v.subs, LAMBDA subscriber : subscriber # ws)
               IN CloseLoopKeepsEmpty(Put(dir, code, Array(kept)), Tail(keys), ws)

\* onClose: for (const code in wsSubscribers) { filter; delete if empty }
\* keys are the keys the for-in visits, fixed when the loop starts; a value
\* without filter (not an array) makes the call throw and ends the loop.
RECURSIVE CloseLoop(_, _, _)
CloseLoop(dir, keys, ws) ==
  IF keys = <<>> THEN [dir |-> dir, threw |-> FALSE]
  ELSE LET code == Head(keys)
           v == Get(dir, code)
       IN IF ~TruthyValue(v) THEN CloseLoop(dir, Tail(keys), ws)
          ELSE IF v.kind # "array" THEN [dir |-> dir, threw |-> TRUE]
          ELSE LET kept == SelectSeq(v.subs, LAMBDA subscriber : subscriber # ws)
               IN CloseLoop(IF Len(kept) = 0 THEN Delete(dir, code)
                                             ELSE Put(dir, code, Array(kept)),
                            Tail(keys), ws)

\* mutant of onClose: the entry of the code the connection advertised goes
\* with it
onCloseOwner(ws) ==
  /\ status[ws] = "open"
  /\ status' = [status EXCEPT ![ws] = "closed"]
  /\ LET r == CloseLoop(wsSubscribers, OwnKeys(wsSubscribers), ws)
     IN /\ wsSubscribers' = Delete(r.dir, advertising[ws])
        /\ threw' = r.threw
  /\ sent' = <<>>
  /\ event' = Event("close", ws, "", EmptyString, 0)
  /\ UNCHANGED << advertising, everAdvertised, received, joined >>

onClose(ws) ==
  /\ status[ws] = "open"
  /\ status' = [status EXCEPT ![ws] = "closed"]
  /\ LET r == CloseLoop(wsSubscribers, OwnKeys(wsSubscribers), ws)
     IN /\ wsSubscribers' = r.dir
        /\ threw' = r.threw
  /\ sent' = <<>>
  /\ event' = Event("close", ws, "", EmptyString, 0)
  /\ UNCHANGED << advertising, everAdvertised, received, joined >>

\* Every handler run counts as one event; a run ends after MaxEvents of them.
\* When a handler starts, the sends of the one before it are history.
Count ==
  /\ handled < MaxEvents
  /\ handled' = handled + 1
  /\ lastLocation' = Flush(lastLocation, sent, status)

Open == Count /\ \E ws \in Conns : onOpen(ws)
Advertise == Count /\ \E ws \in Conns, code \in CodeFields :
                        \E rnd \in (IF TruthyCode(code) THEN { <<>> } ELSE Streams) :
                          onAdvertise(ws, code, rnd)
Subscribe == Count /\ \E ws \in Conns, code \in CodeFields : onSubscribe(ws, code)
Location == Count /\ \E ws \in Conns, p \in Payloads : onLocation(ws, p)
Unknown == Count /\ \E ws \in Conns : onUnknown(ws)
Malformed == Count /\ \E ws \in Conns : onMalformed(ws)
Close == Count /\ \E ws \in Conns : onClose(ws)

Next == Open \/ Advertise \/ Subscribe \/ Location \/ Unknown \/ Malformed \/ Close

Spec == Init /\ [][Next]_vars

\* The same handlers in runs of MaxDeepEvents events.
CountDeep ==
  /\ handled < MaxDeepEvents
  /\ handled' = handled + 1
  /\ lastLocation' = Flush(lastLocation, sent, status)

OpenDeep == CountDeep /\ \E ws \in Conns : onOpen(ws)
AdvertiseDeep == CountDeep /\ \E ws \in Conns, code \in CodeFields :
                            \E rnd \in (IF TruthyCode(code) THEN { <<>> } ELSE Streams) :
                              onAdvertise(ws, code, rnd)
SubscribeDeep == CountDeep /\ \E ws \in Conns, code \in CodeFields : onSubscribe(ws, code)
LocationDeep == CountDeep /\ \E ws \in Conns, p \in Payloads : onLocation(ws, p)
UnknownDeep == CountDeep /\ \E ws \in Conns : onUnknown(ws)
MalformedDeep == CountDeep /\ \E ws \in Conns : onMalformed(ws)
CloseDeep == CountDeep /\ \E ws \in Conns : onClose(ws)

NextDeep ==
  OpenDeep \/ AdvertiseDeep \/ SubscribeDeep \/ LocationDeep \/ UnknownDeep
    \/ MalformedDeep \/ CloseDeep

SpecDeep == Init /\ [][NextDeep]_vars

(* ---------------------------- properties ------------------------------ *)

Range(f) == { f[i] : i \in DOMAIN f }

\* the subscriber list of code c (empty when c has none)
SubsOf(c) == Get(wsSubscribers, c).subs
InList(ws, c) == ws \in Range(SubsOf(c))
\* c has a directory entry that is a subscriber list
HasList(c) == Get(wsSubscribers, c).kind = "array"
HasList_next(c) == Get(wsSubscribers', c).kind = "array"

\* the last handler was onMessage for a message of this type
Handled(type) == event.kind = "message" /\ event.type = type

InvalidCode == ErrorMsg("Invalid or unknown code")
UnknownType == ErrorMsg("Unknown message type")

\* how many of the last handler's sends went to ws
SendsTo(ws) == Cardinality({ i \in DOMAIN sent : sent[i].to = ws })

\* C1: for every code c and connection Y, if no connection has ever sent
\* advertise with c, a subscribe{c} by Y is answered with the error
\* "Invalid or unknown code", adds Y to no subscriber list and creates no
\* directory entry; subscribed{c} is sent only if c has an entry.
\* (subscribe changes neither everAdvertised nor, when it fails, the
\* directory, so the state after the handler decides all of it.)
C1_SubscribeBeforeAdvertise ==
  [][ \A ws \in Conns, c \in CodeFields :
        (onSubscribe(ws, c) /\ c \notin everAdvertised)
          => /\ sent' = << Send(ws, InvalidCode) >>
             /\ wsSubscribers' = wsSubscribers ]_vars

\* C2: once some connection has advertised c, every later subscribe{c}
\* succeeds with subscribed{c}, also while c has no subscriber, whatever the
\* other connections do, except for the disconnect of c's last subscriber:
\*  - an advertise of c leaves c with a subscriber list,
\*  - every step other than the close of c's last subscriber keeps it
\*    (the close of a connection advertising c is left aside too: the claim
\*    speaks of the events of other connections),
\*  - a subscribe{c} while c has a list is answered with subscribed{c}.
\* Stated for the codes that name nothing an object inherits.
LastSubscriberLeaves(ws, c) ==
  /\ onClose(ws)
  /\ SubsOf(c) # <<>>
  /\ Range(SubsOf(c)) = { ws }

C2_SubscribeAfterAdvertise ==
  [][ \A c \in ClientCodes \ InheritedNames :
        /\ (\E ws \in Conns, d \in CodeFields, rnd \in Streams :
              onAdvertise(ws, d, rnd) /\ AdvertiseCode(d, rnd) = c)
             => HasList_next(c)
        /\ ( /\ HasList(c)
              /\ ~(\E ws \in Conns : LastSubscriberLeaves(ws, c))
              /\ ~(\E ws \in Conns : onClose(ws) /\ advertising[ws] = c) )
             => HasList_next(c)
        /\ \A ws \in Conns :
             (HasList(c) /\ onSubscribe(ws, c))
               => sent' = << Send(ws, SubscribedMsg(c)) >> ]_vars

\* C3: a location message of a connection whose advertising code is c is
\* sent to every open connection B that got subscribed{c}, and is never sent
\* to the sender, also when the sender is in c's list itself.
C3_LocationReachesSubscribers ==
  Handled("location") =>
    LET ws == event.conn
        c == advertising[ws]
    IN /\ \A B \in Conns \ { ws } :
            (status[B] = "open" /\ c \in joined[B])
              => \E i \in DOMAIN sent : sent[i] = Send(B, LocationMsg(event.payload))
       /\ SendsTo(ws) = 0

C3_Witness ==
  /\ Handled("location")
  /\ InList(event.conn, advertising[event.conn])
  /\ \E B \in Conns \ { event.conn } :
       /\ status[B] = "open"
       /\ advertising[event.conn] \in joined[B]
       /\ sent = << Send(B, LocationMsg(event.payload)) >>

\* C4: if B is subscribed to two distinct codes c1 and c2 and a connection
\* whose advertising code is c1 sends one location message, B gets exactly
\* one location message for it.
C4_ExactlyOneCopy ==
  Handled("location") =>
    \A B \in Conns \ { event.conn } :
      \A c1, c2 \in ClientCodes :
        ( /\ c1 # c2
          /\ advertising[event.conn] = c1
          /\ status[B] = "open"
          /\ InList(B, c1)
          /\ InList(B, c2) )
          => SendsTo(B) = 1

\* C5: no closed connection is in any code's subscriber list.
C5_NoClosedSubscriber ==
  \A ws \in Conns, c \in ClientCodes :
    status[ws] = "closed" => ~InList(ws, c)

\* an advertise that resolves to code c is being handled
AdvertiseOf(c) ==
  \E ws \in Conns, d \in CodeFields, rnd \in Streams :
    onAdvertise(ws, d, rnd) /\ AdvertiseCode(d, rnd) = c

\* some connection got subscribed{c} at some time
EverJoined(c) == \E B \in Conns : c \in joined[B]

C7_ClientCodeVerbatim ==
  (Handled("advertise") /\ TruthyCode(event.code)) =>
    /\ sent = << Send(event.conn, AdvertisingMsg(event.code)) >>
    /\ advertising[event.conn] = event.code
    /\ HasOwn(wsSubscribers, event.code)

Alphabet ==
  { "A","B","C","D","E","F","G","H","I","J","K","L","M","N","O","P","Q","R",
    "S","T","U","V","W","X","Y","Z","0","1","2","3","4","5","6","7","8","9" }

\* C8: an advertise without a code (or with an empty one) is answered with
\* advertising{code} where code has exactly 6 characters, each one of A-Z and
\* 0-9; that code is the key registered in the directory and the
\* connection's advertising code.
C8_GeneratedCode ==
  (Handled("advertise") /\ ~TruthyCode(event.code)) =>
    LET code == advertising[event.conn]
    IN /\ Len(code) = 6
       /\ \A i \in 1 .. Len(code) : code[i] \in Alphabet
       /\ sent = << Send(event.conn, AdvertisingMsg(code)) >>
       /\ HasList(code)

C8_Witness ==
  /\ Handled("advertise")
  /\ ~TruthyCode(event.code)
  /\ sent # <<>>
  /\ sent[1].msg.type = "advertising"
  /\ Len(sent[1].msg.code) = 6

\* C9: every connection gets exactly one welcome message in its lifetime, and
\* it is the first message it gets.
C9_WelcomeOnceAndFirst ==
  \A ws \in Conns :
    /\ status[ws] = "new" => received[ws] = [welcomes |-> 0, first |-> "none"]
    /\ status[ws] # "new" => received[ws] = [welcomes |-> 1, first |-> "welcome"]

\* a connection gets a location message after its welcome, and a connection
\* that had joined a code has closed
C9_Witness ==
  /\ Handled("location")
  /\ \E ws \in Conns :
       /\ SendsTo(ws) = 1
       /\ status[ws] = "open"
       /\ received[ws].welcomes = 1
  /\ \E ws \in Conns : status[ws] = "closed" /\ joined[ws] # {}

IsErrorTo(s, ws) == s = << Send(ws, InvalidCode) >> \/ s = << Send(ws, UnknownType) >>

\* C10: an error reply is never fatal and changes no state: the handler that
\* sends it leaves the directory and every advertising code as they were and
\* the connection open, and the next advertise or subscribe of that
\* connection is handled as usual (an advertise is answered with advertising
\* and recorded, a subscribe to a code that has a list with subscribed).
C10_ErrorsNotFatal ==
  [][ \A ws \in Conns :
        /\ (IsErrorTo(sent', ws) /\ handled' # handled)
             => /\ wsSubscribers' = wsSubscribers
                /\ advertising' = advertising
                /\ status' = status
                /\ status'[ws] = "open"
        /\ IsErrorTo(sent, ws)
             => /\ \A d \in CodeFields, rnd \in Streams :
                     onAdvertise(ws, d, rnd)
                       => /\ sent' = << Send(ws, AdvertisingMsg(AdvertiseCode(d, rnd))) >>
                          /\ advertising'[ws] = AdvertiseCode(d, rnd)
                /\ \A c \in ClientCodes :
                     (HasList(c) /\ onSubscribe(ws, c))
                       => /\ sent' = << Send(ws, SubscribedMsg(c)) >>
                          /\ InList(ws, c)' ]_vars

\* a subscribe was answered with the error while another code can be joined
C10_Witness ==
  /\ Handled("subscribe")
  /\ sent = << Send(event.conn, InvalidCode) >>
  /\ status[event.conn] = "open"
  /\ TruthyCode(event.code)
  /\ \E c \in ClientCodes : HasList(c)

C12_MalformedReported ==
  [][ \A ws \in Conns :
        onMalformed(ws)
          => /\ Len(sent') = 1
             /\ sent'[1].to = ws
             /\ sent'[1].msg.type = "error"
             /\ status'[ws] = "open"
             /\ wsSubscribers' = wsSubscribers ]_vars

\* C13: a message whose type is none of advertise, subscribe, location is
\* answered with exactly one error message with the text "Unknown message
\* type", sent to its sender, and nothing is sent to any other connection;
\* every error message the relay sends carries one of the texts "Invalid or
\* unknown code" and "Unknown message type".
C13_UnknownTypeError ==
  /\ Handled("other")
       => sent = << [to |-> event.conn,
                     msg |-> [type |-> "error", code |-> EmptyString,
                              message |-> "Unknown message type", payload |-> 0]] >>
  /\ \A i \in DOMAIN sent :
       sent[i].msg.type = "error"
         => sent[i].msg.message \in { "Invalid or unknown code", "Unknown message type" }

\* the message came from a connection that advertises a code with an open
\* subscriber: that subscriber is sent nothing
C13_Witness ==
  /\ Handled("other")
  /\ Len(sent) = 1
  /\ sent[1].to = event.conn
  /\ \E B \in Conns \ { event.conn } :
       /\ status[B] = "open"
       /\ InList(B, advertising[event.conn])

\* how often ws occurs in the subscriber list of c
Occurrences(ws, c) == Cardinality({ i \in DOMAIN SubsOf(c) : SubsOf(c)[i] = ws })

\* C14: in every reachable state every connection occurs at most once in
\* every code's subscriber list, also after it sent subscribe for that code
\* more than once.
C14_NoDuplicateSubscriber ==
  \A c \in ClientCodes, ws \in Conns : Occurrences(ws, c) <= 1

\* C15: the close of connection X deletes only entries whose list became
\* empty by the removal of X: an entry in whose list X is not is left as it
\* was, in particular one that another connection's advertise created and
\* that never had a subscriber.  (Stated for the entries X does not
\* advertise itself.)
C15_CloseKeepsOtherEntries ==
  [][ \A X \in Conns, c \in ClientCodes :
        (onClose(X) /\ ~InList(X, c) /\ advertising[X] # c)
          => Get(wsSubscribers', c) = Get(wsSubscribers, c) ]_vars

\* C16: a connection has one current advertising code, the code of its most
\* recent advertise: an advertise resolving to c2 makes c2 the connection's
\* code and leaves the entry of every other code as it was, no other event
\* changes the connection's code, and a location message is sent only to
\* connections in the list of the sender's current code (so after advertise
\* c1 and then c2, never to a connection that is in c1's list only).
\* A step is told by the event it leaves behind.
C16_LatestAdvertiseWins ==
  [][ /\ Handled("advertise")'
           => \A rnd \in Streams :
                onAdvertise(event'.conn, event'.code, rnd)
                  => /\ advertising'[event'.conn] = AdvertiseCode(event'.code, rnd)
                     /\ \A c1 \in ClientCodes \ { AdvertiseCode(event'.code, rnd) } :
                          Get(wsSubscribers', c1) = Get(wsSubscribers, c1)
      /\ \A ws \in Conns :
           ~(Handled("advertise")' /\ event'.conn = ws)
             => advertising'[ws] = advertising[ws]
      /\ Handled("location")'
           => \A i \in DOMAIN sent' :
                InList(sent'[i].to, advertising[event'.conn]) ]_vars

\* only the sender ever advertised, two codes have a list, and its location
\* message goes to the subscriber of its current code and not to the
\* subscriber of the other one
C16_Witness ==
  /\ Handled("location")
  /\ \A X \in Conns \ { event.conn } : advertising[X] = EmptyString
  /\ \E c1 \in ClientCodes \ { advertising[event.conn] } :
       \E B1, B2 \in Conns \ { event.conn } :
         /\ status[B1] = "open"
         /\ SubsOf(c1) = << B1 >>
         /\ SubsOf(advertising[event.conn]) = << B2 >>
         /\ sent = << Send(B2, LocationMsg(event.payload)) >>

\* C17: a location message of a connection that never advertised, or whose
\* advertising code has no directory entry or no subscriber, does nothing:
\* no message is sent to any connection (no reply or error to the sender
\* either), and the directory, the advertising codes and the connections
\* stay as they were; and the empty string, the code of a connection that
\* never advertised, is never a key of the directory.
C17_LocationWithoutAudience ==
  [][ /\ ( /\ Handled("location")'
           /\ LET c == advertising[event'.conn]
              IN \/ c = EmptyString
                 \/ ~HasOwn(wsSubscribers, c)
                 \/ SubsOf(c) = <<>> )
           => /\ sent' = <<>>
              /\ wsSubscribers' = wsSubscribers
              /\ advertising' = advertising
              /\ status' = status
      /\ ~HasOwn(wsSubscribers', EmptyString) ]_vars

\* the sender's code has an entry without subscribers while another open
\* connection is subscribed elsewhere: nothing is sent
C17_Witness ==
  /\ Handled("location")
  /\ sent = <<>>
  /\ ~threw
  /\ HasList(advertising[event.conn])
  /\ SubsOf(advertising[event.conn]) = <<>>
  /\ \E B \in Conns \ { event.conn }, c \in ClientCodes :
       status[B] = "open" /\ InList(B, c)

\* C18: an advertise for a code that has a directory entry already, from
\* whichever connection, leaves the whole directory as it was: the list of
\* that code and every other entry.  (The connections in the list are then
\* still the ones a later location message is sent to.)
C18_AdvertiseIdempotent ==
  [][ Handled("advertise")'
        => \A rnd \in Streams :
             ( /\ onAdvertise(event'.conn, event'.code, rnd)
               /\ HasOwn(wsSubscribers, AdvertiseCode(event'.code, rnd)) )
               => wsSubscribers' = wsSubscribers ]_vars

\* an advertise was answered for a code whose list holds an open connection
\* other than the advertiser: the list is older than the advertise
C18_Witness ==
  /\ Handled("advertise")
  /\ sent = << Send(event.conn, AdvertisingMsg(advertising[event.conn])) >>
  /\ \E B \in Conns \ { event.conn } :
       status[B] = "open" /\ InList(B, advertising[event.conn])

\* C19: in every reachable state in which some connection was opened and
\* every opened connection has closed, the directory has no entry.
C19_AllClosedDirectoryEmpty ==
  ( /\ \E ws \in Conns : status[ws] = "closed"
    /\ \A ws \in Conns : status[ws] # "open" )
    => wsSubscribers = <<>>

\* C20: the messages of a connection take effect in the order they arrive.
\* Handlers run one after the other to their end, so this says:
\*  - the handler of a location message sends that message and no other,
\*    to every other open connection in the list of the sender's code, and
\*    no other handler sends a location message (nothing is held back);
\*  - when a connection's location m2 is handled right after its location
\*    m1, a subscriber that was sent m1 has m1 behind it when it is sent m2;
\*  - an advertise makes its code the connection's code at once, and the
\*    location handled next is sent to that code's list.
C20_ArrivalOrder ==
  [][ /\ Handled("location")'
           => /\ \A i \in DOMAIN sent' :
                   /\ sent'[i].msg = LocationMsg(event'.payload)
                   /\ InList(sent'[i].to, advertising'[event'.conn])
              /\ \A B \in Conns \ { event'.conn } :
                   (status[B] = "open" /\ InList(B, advertising[event'.conn]))
                     => \E i \in DOMAIN sent' : sent'[i].to = B
      /\ ~Handled("location")'
           => \A i \in DOMAIN sent' : sent'[i].msg.type # "location"
      /\ (Handled("location") /\ Handled("location")' /\ event'.conn = event.conn)
           => \A B \in Conns :
                (status[B] = "open" /\ Send(B, LocationMsg(event.payload)) \in Range(sent))
                  => /\ lastLocation'[B] = event.payload
                     /\ Send(B, LocationMsg(event'.payload)) \in Range(sent')
      /\ Handled("advertise")'
           => sent' = << Send(event'.conn, AdvertisingMsg(advertising'[event'.conn])) >> ]_vars

\* the only advertiser sent two different location messages: its subscriber
\* had the first one before the handler of the second one sent it the second
C20_Witness ==
  /\ Handled("location")
  /\ \A X \in Conns \ { event.conn } : advertising[X] = EmptyString
  /\ \E B \in Conns \ { event.conn } :
       /\ status[B] = "open"
       /\ sent = << Send(B, LocationMsg(event.payload)) >>
       /\ lastLocation[B] \in Payloads \ { event.payload }

\* the open connections a handler's sends went to
Receivers(sends) == { sends[i].to : i \in { j \in DOMAIN sends : status[sends[j].to] = "open" } }

\* C21: a location message goes exactly to the connections that are in the
\* list of the sender's code when its handler runs (the sender left out);
\* nothing is stored or replayed: a subscribe is answered with subscribed or
\* an error to its sender and with nothing else, and what a connection has
\* got as location messages changes only by the sends a location handler
\* made to it.  Each step is one whole handler.
C21_DeliveredToPresentSubscribers ==
  [][ /\ Handled("location")'
           => Receivers(sent') =
                { B \in Conns \ { event'.conn } :
                    status[B] = "open" /\ InList(B, advertising[event'.conn]) }
      /\ Handled("subscribe")'
           => \A i \in DOMAIN sent' :
                /\ sent'[i].to = event'.conn
                /\ sent'[i].msg.type \in { "subscribed", "error" }
      /\ \A B \in Conns :
           lastLocation'[B] # lastLocation[B]
             => /\ Handled("location")
                /\ Send(B, LocationMsg(lastLocation'[B])) \in Range(sent) ]_vars

\* B0 and B are both in the list of the only advertiser's code; B0, which
\* joined no other code, had a location message before this one and B had
\* none: B joined after that message and was not sent it
C21_Witness ==
  /\ Handled("location")
  /\ \A X \in Conns \ { event.conn } : advertising[X] = EmptyString
  /\ \E B0, B \in Conns \ { event.conn } :
       /\ SubsOf(advertising[event.conn]) = << B0, B >>
       /\ joined[B0] = { advertising[event.conn] }
       /\ lastLocation[B0] # 0
       /\ lastLocation[B] = 0
       /\ Receivers(sent) = { B0, B }

\* C22: advertising and subscribing are independent on one connection: an
\* advertise changes no subscriber list (it adds its sender to none), a
\* subscribe changes no advertising code, and a location message is sent to
\* every other open connection in the list of the sender's code, whatever
\* code that connection advertises itself.
C22_RolesIndependent ==
  [][ /\ Handled("advertise")'
           => \A c \in ClientCodes : SubsOf(c)' = SubsOf(c)
      /\ Handled("subscribe")'
           => advertising' = advertising
      /\ Handled("location")'
           => \A X \in Conns \ { event'.conn } :
                (status[X] = "open" /\ InList(X, advertising[event'.conn]))
                  => X \in Receivers(sent') ]_vars

\* two connections, each advertising one code and subscribed to the other's:
\* the one whose location message was handled last had got one from the
\* other before, and now the other is sent this one
C22_Witness ==
  /\ Handled("location")
  /\ \E X \in Conns \ { event.conn } :
       /\ \A Y \in Conns \ { event.conn, X } : status[Y] = "new"
       /\ advertising[X] # EmptyString
       /\ advertising[X] # advertising[event.conn]
       /\ SubsOf(advertising[X]) = << event.conn >>
       /\ SubsOf(advertising[event.conn]) = << X >>
       /\ lastLocation[event.conn] # 0
       /\ sent = << Send(X, LocationMsg(event.payload)) >>

\* C23: a location message is sent to a connection only if that connection
\* is in the subscriber list of the sender's current advertising code when
\* the message is handled, and is not the sender; so a connection that is
\* subscribed to c2 only is sent nothing of a sender whose code is another
\* code c1, and a connection that never subscribed has never got a location
\* message.
C23_SessionIsolation ==
  /\ Handled("location")
       => /\ \A i \in DOMAIN sent :
               /\ sent[i].msg.type = "location"
               /\ sent[i].to # event.conn
               /\ InList(sent[i].to, advertising[event.conn])
          /\ \A B \in Conns, c2 \in ClientCodes \ { advertising[event.conn] } :
               joined[B] \subseteq { c2 } => SendsTo(B) = 0
  /\ \A B \in Conns :
       joined[B] = {}
         => /\ lastLocation[B] = 0
            /\ \A i \in DOMAIN sent : sent[i].msg.type = "location" => sent[i].to # B

\* two sessions side by side: the subscriber of the sender's code is sent the
\* message, the open subscriber of the other code and the sender are not
C23_Witness ==
  /\ Handled("location")
  /\ \E B1, B2 \in Conns \ { event.conn } :
       \E c2 \in ClientCodes \ { advertising[event.conn] } :
         /\ status[B2] = "open"
         /\ joined[B2] = { c2 }
         /\ InList(B2, c2)
         /\ joined[B1] = { advertising[event.conn] }
         /\ sent = << Send(B1, LocationMsg(event.payload)) >>

\* C24: right after the close handler of any connection no directory entry
\* has an empty subscriber list, whether the closing connection was in the
\* list or not.
C24_NoEmptyListAfterClose ==
  event.kind = "close"
    => \A c \in ClientCodes : HasList(c) => SubsOf(c) # <<>>

\* the subscribers in a list other than ws, in the order of the list
Others(subs, ws) == SelectSeq(subs, LAMBDA subscriber : subscriber # ws)

====
